---- MODULE Spec2Model ----
(***************************************************************************)
(* UniquePointer<T> (src/uniquePointer.cpp): an exclusive owner of one     *)
(* heap resource.  The model keeps, for every live UniquePointer object,   *)
(* the value of its field ptr, and for every resource the number of times  *)
(* `delete` has been applied to it (the destruction counter the            *)
(* specification asks tests to observe).  The caller is any sequence of    *)
(* the public operations with any raw handle as argument.  Applying        *)
(* `delete` to a resource that is already destroyed is undefined behaviour *)
(* in C++; the model records it as one more destruction, which is what the *)
(* claims about double frees count.                                        *)
(*                                                                         *)
(* Spec runs the member functions as single steps and records each call;   *)
(* SpecCaller runs the same steps and keeps the caller's bookkeeping of    *)
(* its raw handles instead; SpecFine runs the move constructor, the        *)
(* move assignment and reset one statement at a time; SpecFrame runs the   *)
(* six operations on one object more, recording only their names;          *)
(* SpecSimple is the class smartPointer<T> (src/unnamed/part_000), the     *)
(* owner without copy control.                                             *)
(***************************************************************************)
EXTENDS Integers, FiniteSets, TLC

\* Bounds of the model: the UniquePointer objects that can be alive at once,
\* the resources the caller can allocate, and the `delete` executions in a run.
MaxOwners == 2
MaxResources == 2
MaxDeletes == 2

\* nullptr, the empty handle.
Null == 0

Owners == 1..MaxOwners
Resources == 1..MaxResources
Handles == Resources \cup {Null}

VARIABLES
    ptr,       \* live UniquePointer objects -> their field ptr
    delCount,  \* resource -> number of `delete` applied to it
    last,      \* the call that produced this state (the line it printed),
               \* the handle it found in its owner, and what it returned
    aliased,   \* ghost: a handle held by another live owner was passed in
    misuse,    \* ghost: a handle that was held or destroyed was passed in
    hand,      \* ghost: resource -> who the caller's bookkeeping says has it
    strayed,   \* ghost: a handle the caller did not have was passed in
    loose,     \* ghost: a handle neither fresh nor released and unheld was passed
    watch,     \* which ghosts are kept: those of the "calls", of the
               \* "caller", or the names of the "ops" only
    pc,        \* position of main() while the run is main's run, else "off"
    ip         \* the statement an operation in progress is at, or Idle

vars ==
    <<ptr, delCount, last, aliased, misuse, hand, strayed, loose, watch, pc, ip>>

----------------------------------------------------------------------------
\* The program state the operations of UniquePointer work on.
State == [ptr |-> ptr, del |-> delCount]

Live(st) == DOMAIN st.ptr

\* `delete p`: deleting nullptr does nothing.
Delete(del, p) == IF p = Null THEN del ELSE [del EXCEPT ![p] = @ + 1]

\* explicit UniquePointer(T* p = nullptr) : ptr(p)
ctor(st, this, p) ==
    [st EXCEPT !.ptr = (this :> p) @@ st.ptr]

\* Mutant: the destructor does not free the resource.
dtorNoDelete(st, this) ==
    [ptr |-> [o \in Live(st) \ {this} |-> st.ptr[o]], del |-> st.del]

\* ~UniquePointer() { delete ptr; }   the object ends
dtor(st, this) ==
    [ptr |-> [o \in Live(st) \ {this} |-> st.ptr[o]],
     del |-> Delete(st.del, st.ptr[this])]

\* Mutant: the source's handle is not cleared.
moveCtorKeepsSource(st, this, other) ==
    [st EXCEPT !.ptr = (this :> st.ptr[other]) @@ st.ptr]

\* Mutant: the source's resource is destroyed when its handle is cleared.
moveCtorDeletes(st, this, other) ==
    LET s1 == [st EXCEPT !.ptr = (this :> st.ptr[other]) @@ st.ptr]
        s2 == [s1 EXCEPT !.del = Delete(s1.del, s1.ptr[other])]
    IN  [s2 EXCEPT !.ptr[other] = Null]

\* UniquePointer(UniquePointer&& other) : ptr(other.ptr) { other.ptr = nullptr; }
moveCtor(st, this, other) ==
    LET s1 == [st EXCEPT !.ptr = (this :> st.ptr[other]) @@ st.ptr]
    IN  [s1 EXCEPT !.ptr[other] = Null]

\* Mutant: nothing is done when the source holds nothing.
moveAssignSkipsEmptySource(st, this, other) ==
    IF this # other /\ st.ptr[other] # Null
    THEN LET s1 == [st EXCEPT !.del = Delete(st.del, st.ptr[this])]
             s2 == [s1 EXCEPT !.ptr[this] = s1.ptr[other]]
         IN  [s2 EXCEPT !.ptr[other] = Null]
    ELSE st

\* Mutant: the self-assignment test is missing.
moveAssignNoSelfCheck(st, this, other) ==
    LET s1 == [st EXCEPT !.del = Delete(st.del, st.ptr[this])]
        s2 == [s1 EXCEPT !.ptr[this] = s1.ptr[other]]
    IN  [s2 EXCEPT !.ptr[other] = Null]

\* Mutant: the receiver's current resource is not freed.
moveAssignNoDelete(st, this, other) ==
    IF this # other
    THEN LET s2 == [st EXCEPT !.ptr[this] = st.ptr[other]]
         IN  [s2 EXCEPT !.ptr[other] = Null]
    ELSE st

\* Mutant: the source's handle is not cleared.
moveAssignKeepsSource(st, this, other) ==
    IF this # other
    THEN LET s1 == [st EXCEPT !.del = Delete(st.del, st.ptr[this])]
         IN  [s1 EXCEPT !.ptr[this] = s1.ptr[other]]
    ELSE st

\* operator=(UniquePointer&& other)
moveAssign(st, this, other) ==
    IF this # other
    THEN LET s1 == [st EXCEPT !.del = Delete(st.del, st.ptr[this])]
             s2 == [s1 EXCEPT !.ptr[this] = s1.ptr[other]]
         IN  [s2 EXCEPT !.ptr[other] = Null]
    ELSE st

\* Mutant: the handle is returned but not cleared.
releaseKeepsHandle(st, this) == [st |-> st, ret |-> st.ptr[this]]

\* Mutant: the handle is cleared before it is read, so nullptr is returned.
releaseReturnsNull(st, this) ==
    [st |-> [st EXCEPT !.ptr[this] = Null], ret |-> Null]

\* T* release() { oldPtr = ptr; ptr = nullptr; return oldPtr; }
release(st, this) ==
    [st |-> [st EXCEPT !.ptr[this] = Null], ret |-> st.ptr[this]]

\* Mutant: the handle is given away as by release.
arrowReleases(st, this) ==
    [st |-> [st EXCEPT !.ptr[this] = Null], ret |-> st.ptr[this]]

\* T* operator->() const { return ptr; }
arrow(st, this) == [st |-> st, ret |-> st.ptr[this]]

\* T& operator*() const { return *ptr; }   the resource ptr refers to
deref(st, this) == [st |-> st, ret |-> st.ptr[this]]

\* Mutant: reset takes the new handle away from every other object.
resetUnshares(st, this, p) ==
    LET s1 == [st EXCEPT !.del = Delete(st.del, st.ptr[this])]
    IN  [s1 EXCEPT !.ptr = [x \in Live(st) |->
                               IF x = this THEN p
                               ELSE IF s1.ptr[x] = p THEN Null
                               ELSE s1.ptr[x]]]

\* Mutant: the new handle is installed before the delete.
resetDeletesNew(st, this, p) ==
    LET s1 == [st EXCEPT !.ptr[this] = p]
    IN  [s1 EXCEPT !.del = Delete(s1.del, s1.ptr[this])]

\* Mutant: reset guards against the handle it already holds.
resetSelfCheck(st, this, p) ==
    IF p = st.ptr[this] THEN st
    ELSE [st EXCEPT !.del = Delete(st.del, st.ptr[this]), !.ptr[this] = p]

\* void reset(T* p = nullptr) { delete ptr; ptr = p; }
reset(st, this, p) ==
    LET s1 == [st EXCEPT !.del = Delete(st.del, st.ptr[this])]
    IN  [s1 EXCEPT !.ptr[this] = p]

----------------------------------------------------------------------------
\* The number of `delete` executed so far stays within the model's bound.
RECURSIVE Deletes(_, _)
Deletes(del, S) ==
    IF S = {} THEN 0
    ELSE LET r == CHOOSE x \in S : TRUE IN del[r] + Deletes(del, S \ {r})

Bounded(st) == Deletes(st.del, Resources) <= MaxDeletes

HeldBy(st, p) == {o \in Live(st) : st.ptr[o] = p}

\* The caller passes p to owner `this` while another live owner holds p.
Aliases(st, this, p) == p # Null /\ HeldBy(st, p) \ {this} # {}

\* The caller passes a handle that some live owner holds or that is destroyed.
Misuses(st, p) == p # Null /\ (HeldBy(st, p) # {} \/ st.del[p] > 0)

\* The record of a call: op is the operation (each prints its own line), old
\* is the handle the call found in the owner it worked on (the receiver's
\* handle before the destructor, move assignment, reset and release; the
\* source's handle before the move constructor and the manual transfer), ret
\* is the value release returned to the caller.
Call(op, old, ret) == [op |-> op, old |-> old, ret |-> ret]

\* No operation is in progress.
Idle == [op |-> "idle"]

\* The caller's bookkeeping of raw handles.  A resource is "fresh" until it
\* is first passed to an owner and with its "owner" from then on; after
\* release returned it, it is with the "caller", and with an owner "again"
\* once the caller has passed it on.  The bookkeeping is dropped when it has
\* become useless (loose).
Dropped == [r \in Resources |-> "owner"]

\* The bookkeeping h after release returned r to the caller.
Taken(h, r) ==
    IF watch # "caller" \/ loose \/ r = Null THEN h
    ELSE [h EXCEPT ![r] = "caller"]

\* The caller passes p to a constructor or to reset, the objects being st and
\* the bookkeeping h.  It strays if p is not with it: p is neither fresh nor
\* the handle release returned last for that resource.  It is loose if p is
\* neither fresh nor a handle that release ever returned and that no object
\* holds at the time.
Given(st, h, p) ==
    LET l == loose \/ (p # Null /\ (h[p] = "owner" \/ HeldBy(st, p) # {}))
    IN  IF watch # "caller" THEN UNCHANGED <<hand, strayed, loose>>
        ELSE
        /\ loose' = l
        /\ strayed' = (strayed \/ (p # Null /\ h[p] \in {"owner", "again"}))
        /\ hand' = IF l THEN Dropped
                   ELSE IF p = Null THEN h
                   ELSE [h EXCEPT ![p] = IF @ = "fresh" THEN "owner" ELSE "again"]

Gives(p) == Given(State, hand, p)

Takes(r) ==
    /\ hand' = Taken(hand, r)
    /\ UNCHANGED <<strayed, loose>>

\* int main() of uniquePointer.cpp: unique_ptr is owner 1, unique_ptr2 is
\* owner 2; locals are destroyed in reverse order of construction.
main ==
    { [at |-> "L90",   op |-> "ctor",     this |-> 1, other |-> 1, to |-> "L93"],
      [at |-> "L93",   op |-> "arrow",    this |-> 1, other |-> 1, to |-> "L96"],
      [at |-> "L96",   op |-> "moveCtor", this |-> 2, other |-> 1, to |-> "L99"],
      [at |-> "L99",   op |-> "release",  this |-> 1, other |-> 1, to |-> "L104"],
      [at |-> "L104",  op |-> "arrow",    this |-> 2, other |-> 2, to |-> "L106"],
      [at |-> "L106",  op |-> "dtor",     this |-> 2, other |-> 2, to |-> "L107"],
      [at |-> "L107",  op |-> "dtor",     this |-> 1, other |-> 1, to |-> "end"] }

\* The run stays main's run if the call is main's next statement.
Main(prog, op, this, other, ok) ==
    LET m == {s \in prog : /\ s.at = pc /\ s.op = op
                           /\ s.this = this /\ s.other = other}
    IN  pc' = IF watch = "calls" /\ ok /\ m # {}
                THEN (CHOOSE s \in m : TRUE).to ELSE "off"

\* The effect of a statement on the objects and on the record of the call.
Do(st, call, al, mis) ==
    /\ last.op # "crash"
    /\ Bounded(st)
    /\ ptr' = st.ptr
    /\ delCount' = st.del
    /\ watch' = watch
    /\ last' = IF watch = "calls" \/ call.op = "crash" THEN call
               ELSE IF watch = "ops" THEN Call(call.op, Null, Null)
               ELSE last
    /\ aliased' = (aliased \/ (watch = "calls" /\ al))
    /\ misuse' = (misuse \/ (watch = "calls" /\ mis))

\* A member function called and run to its end while nothing else is running.
Step(st, call, al, mis) ==
    /\ ip = Idle /\ ip' = ip
    /\ Do(st, call, al, mis)

Construct(o, p) ==
    /\ o \notin Live(State)
    /\ Step(ctor(State, o, p), Call("ctor", Null, Null),
            Aliases(State, o, p), Misuses(State, p))
    /\ Gives(p)
    /\ Main(main, "ctor", o, o, p # Null)

Destruct(o) ==
    /\ o \in Live(State)
    /\ Step(dtor(State, o), Call("dtor", ptr[o], Null),
            FALSE, FALSE)
    /\ UNCHANGED <<hand, strayed, loose>>
    /\ Main(main, "dtor", o, o, TRUE)

TransferConstruct(o, other) ==
    /\ o \notin Live(State)
    /\ other \in Live(State)
    /\ Step(moveCtor(State, o, other),
            Call("moveCtor", ptr[other], Null), FALSE, FALSE)
    /\ UNCHANGED <<hand, strayed, loose>>
    /\ Main(main, "moveCtor", o, other, TRUE)

TransferAssign(o, other) ==
    /\ o \in Live(State)
    /\ other \in Live(State)
    /\ Step(moveAssign(State, o, other),
            Call("moveAssign", ptr[o], Null),
            FALSE, FALSE)
    /\ UNCHANGED <<hand, strayed, loose>>
    /\ Main(main, "moveAssign", o, other, TRUE)

\* Mutant: release refuses an owner that holds nothing.
ReleaseOwningOnly(o) ==
    /\ o \in Live(State) /\ ptr[o] # Null
    /\ Step(release(State, o).st,
            Call("release", ptr[o], release(State, o).ret),
            FALSE, FALSE)
    /\ Takes(release(State, o).ret)
    /\ Main(main, "release", o, o, TRUE)

Release(o) ==
    /\ o \in Live(State)
    /\ Step(release(State, o).st,
            Call("release", ptr[o], release(State, o).ret),
            FALSE, FALSE)
    /\ Takes(release(State, o).ret)
    /\ Main(main, "release", o, o, TRUE)

Reset(o, p) ==
    /\ o \in Live(State)
    /\ Step(reset(State, o, p), Call("reset", ptr[o], Null),
            Aliases(State, o, p), Misuses(State, p))
    /\ Gives(p)
    /\ Main(main, "reset", o, o, TRUE)

\* The caller's manual transfer (README, "Release() vs Move()"):
\*   rawPtr = other.release();  UniquePointer o(rawPtr);
Readopt(o, other) ==
    /\ o \notin Live(State)
    /\ other \in Live(State)
    /\ LET r == release(State, other)
       IN  /\ Step(ctor(r.st, o, r.ret), Call("readopt", ptr[other], r.ret),
                   Aliases(r.st, o, r.ret), Misuses(r.st, r.ret))
           /\ Given(r.st, Taken(hand, r.ret), r.ret)
    /\ Main(main, "readopt", o, other, TRUE)

\* o->display(): operator-> and a member call through the handle it returns.
\* Through nullptr the call is undefined behaviour: the program goes on
\* unharmed (display() reads no member) or it dies.
MemberAccess(o) ==
    /\ o \in Live(State)
    /\ \E outcome \in IF ptr[o] # Null THEN {"arrow"} ELSE {"arrow", "crash"} :
          Step(arrow(State, o).st,
               Call(outcome, ptr[o], arrow(State, o).ret), FALSE, FALSE)
    /\ UNCHANGED <<hand, strayed, loose>>
    /\ Main(main, "arrow", o, o, ptr[o] # Null)

\* (*o).display(): operator* and a member call on the reference it returns.
\* Binding a reference to *nullptr is undefined behaviour, as above.
Dereference(o) ==
    /\ o \in Live(State)
    /\ \E outcome \in IF ptr[o] # Null THEN {"deref"} ELSE {"deref", "crash"} :
          Step(deref(State, o).st,
               Call(outcome, ptr[o], deref(State, o).ret), FALSE, FALSE)
    /\ UNCHANGED <<hand, strayed, loose>>
    /\ Main(main, "deref", o, o, ptr[o] # Null)

Init ==
    /\ ptr = [o \in {} |-> Null]
    /\ delCount = [r \in Resources |-> 0]
    /\ last = Call("init", Null, Null)
    /\ aliased = FALSE
    /\ misuse = FALSE
    /\ hand = [r \in Resources |-> "fresh"]
    /\ strayed = FALSE
    /\ loose = FALSE
    /\ watch = "calls"
    /\ pc = "L90"
    /\ ip = Idle

Next ==
    \/ \E o \in Owners, p \in Handles : Construct(o, p)
    \/ \E o \in Owners : Destruct(o)
    \/ \E o \in Owners, other \in Owners : TransferConstruct(o, other)
    \/ \E o \in Owners, other \in Owners : TransferAssign(o, other)
    \/ \E o \in Owners : Release(o)
    \/ \E o \in Owners, p \in Handles : Reset(o, p)
    \/ \E o \in Owners, other \in Owners : Readopt(o, other)
    \/ \E o \in Owners : MemberAccess(o)
    \/ \E o \in Owners : Dereference(o)

Spec == Init /\ [][Next]_vars

\* The same program with the caller's bookkeeping kept instead of the record
\* of the calls.
InitCaller ==
    /\ ptr = [o \in {} |-> Null]
    /\ delCount = [r \in Resources |-> 0]
    /\ last = Call("init", Null, Null)
    /\ aliased = FALSE
    /\ misuse = FALSE
    /\ hand = [r \in Resources |-> "fresh"]
    /\ strayed = FALSE
    /\ loose = FALSE
    /\ watch = "caller"
    /\ pc = "off"
    /\ ip = Idle

SpecCaller == InitCaller /\ [][Next]_vars

\* The objects of a program with one object more than Owners: beside the
\* source and the receiver of a move there is room for a bystander.
Party == 1..(MaxOwners + 1)

\* The six operations on the objects of Party, only the name of the last
\* operation recorded.
InitFrame ==
    /\ ptr = [o \in {} |-> Null]
    /\ delCount = [r \in Resources |-> 0]
    /\ last = Call("init", Null, Null)
    /\ aliased = FALSE
    /\ misuse = FALSE
    /\ hand = [r \in Resources |-> "fresh"]
    /\ strayed = FALSE
    /\ loose = FALSE
    /\ watch = "ops"
    /\ pc = "off"
    /\ ip = Idle

NextFrame ==
    \/ \E o \in Party, p \in Handles : Construct(o, p)
    \/ \E o \in Party : Destruct(o)
    \/ \E o \in Party, other \in Party : TransferConstruct(o, other)
    \/ \E o \in Party, other \in Party : TransferAssign(o, other)
    \/ \E o \in Party : Release(o)
    \/ \E o \in Party, p \in Handles : Reset(o, p)

SpecFrame == InitFrame /\ [][NextFrame]_vars

TypeOK ==
    /\ DOMAIN ptr \subseteq Owners
    /\ \A o \in DOMAIN ptr : ptr[o] \in Handles
    /\ delCount \in [Resources -> 0..MaxDeletes]
    /\ last.old \in Handles /\ last.ret \in Handles
    /\ aliased \in BOOLEAN /\ misuse \in BOOLEAN /\ strayed \in BOOLEAN
    /\ loose \in BOOLEAN /\ (loose => strayed)
    /\ watch \in {"calls", "caller", "ops"}
    /\ hand \in [Resources -> {"fresh", "owner", "caller", "again"}]

\* ---------------------------------------------------------------------------
\* class smartPointer<T>: the owner without copy control.

\* explicit smartPointer(T* p = nullptr) : ptr(p)
spCtor(st, this, p) == [st EXCEPT !.ptr = (this :> p) @@ st.ptr]

\* Mutant: the destructor forgets the delete.
spDtorNoDelete(st, this) ==
    [st EXCEPT !.ptr = [o \in Live(st) \ {this} |-> st.ptr[o]]]

\* ~smartPointer() { delete ptr; }
spDtor(st, this) ==
    [ptr |-> [o \in Live(st) \ {this} |-> st.ptr[o]],
     del |-> Delete(st.del, st.ptr[this])]

\* Mutant: the copy takes the handle away from its source.
spCopyMoves(st, this, other) ==
    [st EXCEPT !.ptr = (this :> st.ptr[other]) @@ [st.ptr EXCEPT ![other] = Null]]

\* The copy constructor the compiler generates: memberwise, ptr(other.ptr).
spCopy(st, this, other) ==
    [st EXCEPT !.ptr = (this :> st.ptr[other]) @@ st.ptr]

\* The copy assignment the compiler generates: ptr = other.ptr, no delete.
spCopyAssign(st, this, other) == [st EXCEPT !.ptr[this] = st.ptr[other]]

\* T* operator->() const { return ptr; }
spArrow(st, this) == [st |-> st, ret |-> st.ptr[this]]

\* T& operator*() const { return *ptr; }
spDeref(st, this) == [st |-> st, ret |-> st.ptr[this]]

\* int main() of the smartPointer program: sp1 is owner 1.  The argument
\* new MyClass() is evaluated before the constructor runs, and the destructor
\* of sp1 prints its line before it deletes.
simpleMain ==
    { [at |-> "L55",  op |-> "new",    this |-> 1, other |-> 1, to |-> "L55c"],
      [at |-> "L55c", op |-> "ctor",   this |-> 1, other |-> 1, to |-> "L58"],
      [at |-> "L58",  op |-> "arrow",  this |-> 1, other |-> 1, to |-> "L59"],
      [at |-> "L59",  op |-> "deref",  this |-> 1, other |-> 1, to |-> "L61"],
      [at |-> "L61",  op |-> "dtor",   this |-> 1, other |-> 1, to |-> "L62"],
      [at |-> "L62",  op |-> "delete", this |-> 1, other |-> 1, to |-> "done"] }

\* new MyClass(): the resource comes to exist, its raw handle with the caller.
New(r) ==
    /\ hand[r] = "fresh"
    /\ Step(State, Call("new", Null, r), FALSE, FALSE)
    /\ hand' = [hand EXCEPT ![r] = "caller"]
    /\ UNCHANGED <<strayed, loose>>
    /\ Main(simpleMain, "new", 1, 1, TRUE)

\* smartPointer<T> o(p) for a handle the caller can have.
SimpleConstruct(o, p) ==
    /\ o \notin Live(State)
    /\ p # Null => hand[p] # "fresh"
    /\ Step(spCtor(State, o, p), Call("ctor", Null, Null), FALSE, FALSE)
    /\ LET s == strayed \/ (p # Null /\ hand[p] = "owner")
       IN  /\ strayed' = s /\ loose' = loose
           /\ hand' = IF s THEN Dropped
                      ELSE IF p = Null THEN hand
                      ELSE [hand EXCEPT ![p] = "owner"]
    /\ Main(simpleMain, "ctor", o, o, p = last.ret)

\* smartPointer<T> o(other), or o = other in a declaration.
SimpleCopy(o, other) ==
    /\ o \notin Live(State) /\ other \in Live(State)
    /\ Step(spCopy(State, o, other), Call("copy", ptr[other], Null),
            FALSE, FALSE)
    /\ UNCHANGED <<hand, strayed, loose>>
    /\ Main(simpleMain, "copy", o, other, TRUE)

\* o = other
SimpleCopyAssign(o, other) ==
    /\ o \in Live(State) /\ other \in Live(State)
    /\ Step(spCopyAssign(State, o, other), Call("copyAssign", ptr[o], Null),
            FALSE, FALSE)
    /\ UNCHANGED <<hand, strayed, loose>>
    /\ Main(simpleMain, "copyAssign", o, other, TRUE)

\* o->show(); through nullptr undefined behaviour as for UniquePointer.
SimpleMemberAccess(o) ==
    /\ o \in Live(State)
    /\ \E outcome \in IF ptr[o] # Null THEN {"arrow"} ELSE {"arrow", "crash"} :
          Step(spArrow(State, o).st,
               Call(outcome, ptr[o], spArrow(State, o).ret), FALSE, FALSE)
    /\ UNCHANGED <<hand, strayed, loose>>
    /\ Main(simpleMain, "arrow", o, o, ptr[o] # Null)

\* (*o).show()
SimpleDereference(o) ==
    /\ o \in Live(State)
    /\ \E outcome \in IF ptr[o] # Null THEN {"deref"} ELSE {"deref", "crash"} :
          Step(spDeref(State, o).st,
               Call(outcome, ptr[o], spDeref(State, o).ret), FALSE, FALSE)
    /\ UNCHANGED <<hand, strayed, loose>>
    /\ Main(simpleMain, "deref", o, o, ptr[o] # Null)

\* ~smartPointer() is entered and prints its line.
SimpleDestructBegin(o) ==
    /\ o \in Live(State)
    /\ ip = Idle
    /\ ip' = [op |-> "dtor", this |-> o]
    /\ Do(State, Call("dtorBegin", ptr[o], Null), FALSE, FALSE)
    /\ UNCHANGED <<hand, strayed, loose>>
    /\ Main(simpleMain, "dtor", o, o, TRUE)

\* delete ptr; and the object is gone.
SimpleDestructDelete(o) ==
    /\ ip = [op |-> "dtor", this |-> o]
    /\ ip' = Idle
    /\ Do(spDtor(State, o), Call("dtor", ptr[o], Null), FALSE, FALSE)
    /\ UNCHANGED <<hand, strayed, loose>>
    /\ Main(simpleMain, "delete", o, o, TRUE)

InitSimple ==
    /\ ptr = [o \in {} |-> Null]
    /\ delCount = [r \in Resources |-> 0]
    /\ last = Call("init", Null, Null)
    /\ aliased = FALSE
    /\ misuse = FALSE
    /\ hand = [r \in Resources |-> "fresh"]
    /\ strayed = FALSE
    /\ loose = FALSE
    /\ watch = "calls"
    /\ pc = "L55"
    /\ ip = Idle

NextSimple ==
    \/ \E r \in Resources : New(r)
    \/ \E o \in Owners, p \in Handles : SimpleConstruct(o, p)
    \/ \E o \in Owners, other \in Owners : SimpleCopy(o, other)
    \/ \E o \in Owners, other \in Owners : SimpleCopyAssign(o, other)
    \/ \E o \in Owners : SimpleMemberAccess(o)
    \/ \E o \in Owners : SimpleDereference(o)
    \/ \E o \in Owners : SimpleDestructBegin(o)
    \/ \E o \in Owners : SimpleDestructDelete(o)

SpecSimple == InitSimple /\ [][NextSimple]_vars

\* ---------------------------------------------------------------------------
\* class UniquePointer<T> statement by statement: the move constructor and
\* the move assignment are run one assignment at a time.

\* delete ptr;
deletePtr(st, this) == [st EXCEPT !.del = Delete(st.del, st.ptr[this])]

\* Mutant: the handle is copied and the source cleared in one go.
copyPtrMoves(st, this, other) ==
    [st EXCEPT !.ptr = (this :> st.ptr[other]) @@ [st.ptr EXCEPT ![other] = Null]]

\* ptr(other.ptr) in the initializer list, ptr = other.ptr; in operator=
copyPtr(st, this, other) ==
    [st EXCEPT !.ptr = (this :> st.ptr[other]) @@ st.ptr]

\* other.ptr = nullptr;
clearPtr(st, other) == [st EXCEPT !.ptr[other] = Null]

\* ptr = p;
installPtr(st, this, p) == [st EXCEPT !.ptr[this] = p]

\* How often the resource of handle p has been destroyed in st.
Destroyed(st, p) == IF p = Null THEN 0 ELSE st.del[p]

\* UniquePointer(UniquePointer&& other) : ptr(other.ptr)   up to the body
MoveCtorInit(o, other) ==
    /\ ip = Idle
    /\ o \notin Live(State) /\ other \in Live(State)
    /\ ip' = [op |-> "moveCtor", this |-> o, other |-> other, at |-> 30,
              old |-> Null, res |-> ptr[other], dels |-> 0]
    /\ Do(copyPtr(State, o, other), Call("step", ptr[other], Null),
          FALSE, FALSE)
    /\ UNCHANGED <<hand, strayed, loose, pc>>

\* { other.ptr = nullptr; }
MoveCtorClear ==
    /\ ip.op = "moveCtor"
    /\ ip' = Idle
    /\ Do(clearPtr(State, ip.other), Call("moveCtor", ip.res, Null),
          FALSE, FALSE)
    /\ UNCHANGED <<hand, strayed, loose, pc>>

\* operator=(UniquePointer&& other) { if (this != &other) {
MoveAssignEnter(o, other) ==
    /\ ip = Idle
    /\ o \in Live(State) /\ other \in Live(State)
    /\ IF o # other
       THEN /\ ip' = [op |-> "moveAssign", this |-> o, other |-> other,
                      at |-> 36, old |-> ptr[o], res |-> ptr[other],
                      dels |-> Destroyed(State, ptr[o])]
            /\ Do(State, Call("step", ptr[o], Null), FALSE, FALSE)
       ELSE /\ ip' = Idle
            /\ Do(State, Call("moveAssign", ptr[o], Null), FALSE, FALSE)
    /\ UNCHANGED <<hand, strayed, loose, pc>>

\* delete ptr;
MoveAssignDelete ==
    /\ ip.op = "moveAssign" /\ ip.at = 36
    /\ ip' = [ip EXCEPT !.at = 37]
    /\ Do(deletePtr(State, ip.this), Call("step", ip.old, Null), FALSE, FALSE)
    /\ UNCHANGED <<hand, strayed, loose, pc>>

\* ptr = other.ptr;
MoveAssignCopy ==
    /\ ip.op = "moveAssign" /\ ip.at = 37
    /\ ip' = [ip EXCEPT !.at = 38]
    /\ Do(copyPtr(State, ip.this, ip.other), Call("step", ip.old, Null),
          FALSE, FALSE)
    /\ UNCHANGED <<hand, strayed, loose, pc>>

\* other.ptr = nullptr; } return *this; }
MoveAssignClear ==
    /\ ip.op = "moveAssign" /\ ip.at = 38
    /\ ip' = Idle
    /\ Do(clearPtr(State, ip.other), Call("moveAssign", ip.old, Null),
          FALSE, FALSE)
    /\ UNCHANGED <<hand, strayed, loose, pc>>

\* Mutant: reset installs the new handle and then deletes.
ResetInstallsFirst(o, p) ==
    /\ ip = Idle
    /\ o \in Live(State)
    /\ ip' = [op |-> "reset", this |-> o, other |-> o, at |-> 68,
              old |-> ptr[o], res |-> p, dels |-> Destroyed(State, ptr[o])]
    /\ Do(deletePtr(installPtr(State, o, p), o), Call("step", ptr[o], Null),
          Aliases(State, o, p), Misuses(State, p))
    /\ Gives(p)
    /\ pc' = pc

\* void reset(T* p) { delete ptr;
ResetDelete(o, p) ==
    /\ ip = Idle
    /\ o \in Live(State)
    /\ ip' = [op |-> "reset", this |-> o, other |-> o, at |-> 68,
              old |-> ptr[o], res |-> p, dels |-> Destroyed(State, ptr[o])]
    /\ Do(deletePtr(State, o), Call("step", ptr[o], Null),
          Aliases(State, o, p), Misuses(State, p))
    /\ Gives(p)
    /\ pc' = pc

\* ptr = p; }
ResetInstall ==
    /\ ip.op = "reset"
    /\ ip' = Idle
    /\ Do(installPtr(State, ip.this, ip.res), Call("reset", ip.old, Null),
          FALSE, FALSE)
    /\ UNCHANGED <<hand, strayed, loose, pc>>

InitFine ==
    /\ ptr = [o \in {} |-> Null]
    /\ delCount = [r \in Resources |-> 0]
    /\ last = Call("init", Null, Null)
    /\ aliased = FALSE
    /\ misuse = FALSE
    /\ hand = [r \in Resources |-> "fresh"]
    /\ strayed = FALSE
    /\ loose = FALSE
    /\ watch = "calls"
    /\ pc = "off"
    /\ ip = Idle

NextFine ==
    \/ \E o \in Owners, p \in Handles : Construct(o, p)
    \/ \E o \in Owners : Destruct(o)
    \/ \E o \in Owners : Release(o)
    \/ \E o \in Owners, p \in Handles : ResetDelete(o, p)
    \/ ResetInstall
    \/ \E o \in Owners, other \in Owners : MoveCtorInit(o, other)
    \/ MoveCtorClear
    \/ \E o \in Owners, other \in Owners : MoveAssignEnter(o, other)
    \/ MoveAssignDelete
    \/ MoveAssignCopy
    \/ MoveAssignClear

SpecFine == InitFine /\ [][NextFine]_vars

----------------------------------------------------------------------------
\* Vocabulary of the claims.
NotLive == Owners \ DOMAIN ptr

\* The destruction counters with exactly one more destruction of r.
OnceMore(del, r) == [x \in Resources |-> IF x = r THEN del[x] + 1 ELSE del[x]]

\* No two live owners hold the same resource.
Exclusive ==
    \A a, b \in DOMAIN ptr : a # b /\ ptr[a] # Null => ptr[a] # ptr[b]

\* No resource has been destroyed more than once.
NoDoubleFree == \A r \in Resources : delCount[r] <= 1

\* C1 (as stated): whatever handles the caller passes to Construct and Reset,
\* no two live owners ever hold the same resource.
C1_ExclusiveAnyHandle == Exclusive

\* C1 (amended): as long as no Construct or Reset has been passed a handle that
\* another live owner held at the time of the call, each live owner's handle is
\* empty or identifies a resource that no other live owner holds.
C1_ExclusiveUnlessAliased == ~aliased => Exclusive

\* C1 witness: ownership has moved by a transfer-assign and two live owners
\* hold two different resources, with no aliasing call so far.
C1_Witness ==
    /\ ~aliased
    /\ last.op = "moveAssign"
    /\ \E a, b \in DOMAIN ptr : a # b /\ ptr[a] # Null /\ ptr[b] # Null

\* C2 (as stated): over any sequence of operations no resource is destroyed
\* more than once.
C2_NoDoubleFreeAnySequence == NoDoubleFree

\* C2 (amended): as long as every handle passed to Construct or Reset was empty
\* or a resource that was not destroyed and not held by any live owner at the
\* time of the call, no resource is destroyed more than once.
C2_NoDoubleFreeUnlessMisuse == ~misuse => NoDoubleFree

\* C2 witness: every owner is gone and every resource has been destroyed, each
\* exactly once, the last one by a destructor.
C2_Witness ==
    /\ ~misuse
    /\ last.op = "dtor" /\ last.old # Null
    /\ DOMAIN ptr = {}
    /\ \A r \in Resources : delCount[r] = 1

\* C3: transfer-assign into a receiver owning X from a distinct source owning
\* Y, X # Y: the assignment destroys X exactly once and nothing else, the
\* receiver then holds Y, the source is empty, Y is not destroyed, and a later
\* Destruct of the source, or of the receiver, does not destroy X.
C3_TransferAssignOwning ==
    \A o, other \in DOMAIN ptr :
        (/\ o # other
         /\ ptr[o] # Null /\ ptr[other] # Null /\ ptr[o] # ptr[other])
        => LET X == ptr[o]
               Y == ptr[other]
               s == moveAssign(State, o, other)
           IN  /\ s.del = OnceMore(delCount, X)
               /\ s.del[Y] = delCount[Y]
               /\ s.ptr[o] = Y
               /\ s.ptr[other] = Null
               /\ DOMAIN s.ptr = DOMAIN ptr
               /\ dtor(s, other).del = s.del
               /\ dtor(s, o).del[X] = s.del[X]

\* C3 witness: a transfer-assign has destroyed the receiver's resource X (once
\* in all), another resource is held and not destroyed, and an owner is empty.
C3_Witness ==
    /\ ~misuse
    /\ last.op = "moveAssign" /\ last.old # Null
    /\ delCount[last.old] = 1
    /\ \E o, other \in DOMAIN ptr :
          /\ o # other
          /\ ptr[o] # Null /\ ptr[o] # last.old /\ delCount[ptr[o]] = 0
          /\ ptr[other] = Null

\* C4: transfer-assign of an owner to itself changes neither its handle nor
\* any other owner's, and destroys nothing, whatever the owner holds.
C4_SelfAssignNoOp ==
    \A o \in DOMAIN ptr :
        LET s == moveAssign(State, o, o)
        IN  /\ s.ptr[o] = ptr[o]
            /\ s.ptr = ptr
            /\ s.del = delCount

\* C4 witness: a transfer-assign has run with a single live owner (so onto
\* itself), which still holds its resource, and nothing is destroyed.
C4_Witness ==
    /\ last.op = "moveAssign" /\ last.old # Null
    /\ \E o \in Owners : DOMAIN ptr = {o} /\ ptr[o] = last.old
    /\ \A r \in Resources : delCount[r] = 0

\* C5: transfer-construct of B from an owner A holding R: B holds R, A is empty
\* and nothing is destroyed by the transfer; then Destruct of B destroys R once
\* and nothing else, and Destruct of A, before or after B's, destroys nothing.
C5_TransferConstruct ==
    \A a \in DOMAIN ptr : \A b \in NotLive :
        ptr[a] # Null
        => LET R == ptr[a]
               s == moveCtor(State, b, a)
           IN  /\ s.ptr[b] = R
               /\ s.ptr[a] = Null
               /\ DOMAIN s.ptr = DOMAIN ptr \cup {b}
               /\ s.del = delCount
               /\ dtor(s, b).del = OnceMore(delCount, R)
               /\ dtor(s, a).del = delCount
               /\ dtor(dtor(s, b), a).del = OnceMore(delCount, R)
               /\ dtor(dtor(s, a), b).del = OnceMore(delCount, R)

\* C5 witness: a transfer-construct has moved R out of its source; exactly one
\* owner holds R, an empty owner is left behind and R is not destroyed.
C5_Witness ==
    /\ ~misuse
    /\ last.op = "moveCtor" /\ last.old # Null
    /\ Cardinality(HeldBy(State, last.old)) = 1
    /\ \E a \in DOMAIN ptr : ptr[a] = Null
    /\ delCount[last.old] = 0

\* C6: Destruct ends the owner; it destroys the held resource exactly once, and
\* nothing else, when the owner is Owning, and destroys nothing when the owner
\* is Empty (as left by default construction, Release or Reset()); Construct
\* over R directly followed by Destruct destroys R exactly once.
C6_Destruct ==
    /\ \A o \in DOMAIN ptr :
          LET s == dtor(State, o)
          IN  /\ DOMAIN s.ptr = DOMAIN ptr \ {o}
              /\ ptr[o] # Null => s.del = OnceMore(delCount, ptr[o])
              /\ ptr[o] = Null => s.del = delCount
              /\ dtor(release(State, o).st, o).del = delCount
              /\ dtor(reset(State, o, Null), o).del = reset(State, o, Null).del
    /\ \A b \in NotLive :
          /\ \A R \in Resources :
                dtor(ctor(State, b, R), b).del = OnceMore(delCount, R)
          /\ dtor(ctor(State, b, Null), b).del = delCount
          /\ \A a \in DOMAIN ptr :
                dtor(moveCtor(State, b, a), a).del = delCount

\* C6 witness: a destructor has destroyed the resource its owner held, which is
\* thereby destroyed once, while other owners are still alive.
C6_Witness ==
    /\ ~misuse
    /\ last.op = "dtor" /\ last.old # Null
    /\ delCount[last.old] = 1
    /\ HeldBy(State, last.old) = {}
    /\ DOMAIN ptr # {}

\* C7: Release on an owner holding R returns R, leaves the owner Empty (and
\* alive) and destroys nothing; a Destruct of that owner right after destroys
\* nothing either, so R is as undestroyed as before.
C7_Release ==
    \A o \in DOMAIN ptr :
        ptr[o] # Null
        => LET R == ptr[o]
               r == release(State, o)
           IN  /\ r.ret = R
               /\ o \in DOMAIN r.st.ptr /\ r.st.ptr[o] = Null
               /\ r.st.del = delCount
               /\ dtor(r.st, o).del = delCount

\* C7 witness: Release has returned a resource that no owner holds any more and
\* that is not destroyed; the owner it came from is a live, empty owner.
C7_Witness ==
    /\ ~misuse
    /\ last.op = "release" /\ last.ret # Null /\ last.ret = last.old
    /\ HeldBy(State, last.ret) = {}
    /\ delCount[last.ret] = 0
    /\ \E o \in DOMAIN ptr : ptr[o] = Null

\* C8: Reset(N) on an owner holding R, N another resource or empty, destroys R
\* exactly once, and nothing else, and leaves the owner holding N (Empty for
\* Reset()); Reset(N) on an Empty owner destroys nothing and installs N.
C8_Reset ==
    \A o \in DOMAIN ptr : \A N \in Handles :
        LET s == reset(State, o, N)
        IN  /\ (ptr[o] # Null /\ N # ptr[o])
                  => s.del = OnceMore(delCount, ptr[o]) /\ s.ptr[o] = N
            /\ ptr[o] = Null
                  => s.del = delCount /\ s.ptr[o] = N
            /\ DOMAIN s.ptr = DOMAIN ptr

\* C8 witness: a Reset has destroyed the resource R its owner held (once in
\* all) and an owner now holds another resource, which is not destroyed.
C8_Witness ==
    /\ ~misuse
    /\ last.op = "reset" /\ last.old # Null
    /\ delCount[last.old] = 1
    /\ HeldBy(State, last.old) = {}
    /\ \E o \in DOMAIN ptr : ptr[o] # Null /\ delCount[ptr[o]] = 0

\* C9 (as stated): after every Transfer-construct and every Transfer-assign,
\* whatever the states of source and receiver, the source owner is Empty.
C9_SourceAlwaysEmpty ==
    [][\A o, other \in Owners :
          (TransferConstruct(o, other) \/ TransferAssign(o, other))
          => ptr'[other] = Null]_vars

\* C9 (amended): after every Transfer-construct, and after every
\* Transfer-assign whose source is another instance than the receiver, the
\* source owner is Empty, whatever source and receiver held before; a
\* Transfer-assign of an owner to itself leaves its handle as it was.
C9_SourceEmptyUnlessSelf ==
    /\ \A a \in DOMAIN ptr : \A b \in NotLive :
          moveCtor(State, b, a).ptr[a] = Null
    /\ \A o, other \in DOMAIN ptr :
          /\ o # other => moveAssign(State, o, other).ptr[other] = Null
          /\ o = other => moveAssign(State, o, other).ptr[other] = ptr[other]

\* C9 witness: a Transfer-assign from an Empty source into an Owning receiver
\* has run: the receiver's resource is destroyed and both owners are Empty.
C9_Witness ==
    /\ ~misuse
    /\ last.op = "moveAssign" /\ last.old # Null
    /\ delCount[last.old] = 1
    /\ Cardinality(DOMAIN ptr) = 2
    /\ \A o \in DOMAIN ptr : ptr[o] = Null

\* C10: for an owner A in any state, Release on A followed by Construct of B
\* over the returned handle gives the same handles and the same destruction
\* counters as Transfer-construct of B from A: B holds what A held, A is
\* Empty, nothing is destroyed; and a Destruct of B then destroys A's former
\* resource exactly once.
C10_ReleaseAdoptIsMove ==
    \A a \in DOMAIN ptr : \A b \in NotLive :
        LET r == release(State, a)
            viaRelease == ctor(r.st, b, r.ret)
            viaMove == moveCtor(State, b, a)
        IN  /\ viaRelease = viaMove
            /\ viaRelease.ptr[b] = ptr[a]
            /\ viaRelease.ptr[a] = Null
            /\ viaRelease.del = delCount
            /\ ptr[a] # Null
                  => dtor(viaRelease, b).del = OnceMore(delCount, ptr[a])
            /\ ptr[a] = Null => dtor(viaRelease, b).del = delCount

\* C10 witness: a new owner has been constructed over the resource that
\* Release returned: it alone holds it, the releasing owner is Empty and the
\* resource is not destroyed.
C10_Witness ==
    /\ ~misuse
    /\ last.op = "readopt" /\ last.ret # Null /\ last.ret = last.old
    /\ Cardinality(HeldBy(State, last.ret)) = 1
    /\ \E a \in DOMAIN ptr : ptr[a] = Null
    /\ delCount[last.ret] = 0
\* ---------------------------------------------------------------------------
\* The resources that are held or have been destroyed.
Used == {r \in Resources : HeldBy(State, r) # {} \/ delCount[r] > 0}

\* The resource main() created.
DemoResource == CHOOSE r \in Used : TRUE

NoneDestroyed == \A r \in Resources : delCount[r] = 0

OnlyDestroyedOnce(r) ==
    \A x \in Resources : delCount[x] = IF x = r THEN 1 ELSE 0

\* C11: the run of main() in uniquePointer.cpp.  After line 90 owner 1 holds
\* the new resource R1; the member access of line 93 reaches R1; after line 96
\* owner 2 holds R1 and owner 1 is empty; Release() on owner 1 at line 99
\* returns the empty handle; the member access of line 104 reaches R1, which
\* is not destroyed; at the end of the scope owner 2 is destroyed first and
\* destroys R1, then owner 1 is destroyed and destroys nothing, so R1 is
\* destroyed exactly once.
C11_DemoTrace ==
    /\ pc \in {"L93", "L96", "L99", "L104", "L106", "L107", "end"} =>
          Cardinality(Used) = 1
    /\ pc = "L93" =>
          /\ last.op = "ctor" /\ DOMAIN ptr = {1}
          /\ ptr[1] = DemoResource /\ NoneDestroyed
    /\ pc = "L96" =>
          /\ last.op = "arrow" /\ last.ret = DemoResource
          /\ DOMAIN ptr = {1} /\ ptr[1] = DemoResource /\ NoneDestroyed
    /\ pc = "L99" =>
          /\ last.op = "moveCtor" /\ DOMAIN ptr = {1, 2}
          /\ ptr[2] = DemoResource /\ ptr[1] = Null /\ NoneDestroyed
    /\ pc = "L104" =>
          /\ last.op = "release" /\ last.ret = Null
          /\ DOMAIN ptr = {1, 2}
          /\ ptr[2] = DemoResource /\ ptr[1] = Null /\ NoneDestroyed
    /\ pc = "L106" =>
          /\ last.op = "arrow" /\ last.ret = DemoResource
          /\ DOMAIN ptr = {1, 2}
          /\ ptr[2] = DemoResource /\ ptr[1] = Null /\ NoneDestroyed
    /\ pc = "L107" =>
          /\ last.op = "dtor" /\ last.old = DemoResource
          /\ DOMAIN ptr = {1} /\ ptr[1] = Null
          /\ OnlyDestroyedOnce(DemoResource)
    /\ pc = "end" =>
          /\ last.op = "dtor" /\ last.old = Null
          /\ DOMAIN ptr = {}
          /\ OnlyDestroyedOnce(DemoResource)

\* main() has returned.
C11_Witness ==
    /\ pc = "end"
    /\ DOMAIN ptr = {} /\ delCount[DemoResource] = 1

\* ---------------------------------------------------------------------------
\* C12: two live smartPointer objects that hold the same resource, whether one
\* is the compiler-generated copy of the other or both were constructed over
\* the same raw handle, destroy the resource twice when both are destroyed.
C12_SimpleOwnerDoubleFree ==
    /\ \A a \in DOMAIN ptr, b \in DOMAIN ptr :
          (a # b /\ ptr[a] # Null /\ ptr[a] = ptr[b]) =>
              LET s == spDtor(spDtor(State, a), b)
              IN  /\ s.del = OnceMore(OnceMore(delCount, ptr[a]), ptr[a])
                  /\ {a, b} \cap Live(s) = {}
    /\ \A a \in DOMAIN ptr, c \in NotLive :
          ptr[a] # Null =>
              LET s == spCopy(State, c, a)
              IN  /\ s.ptr[c] = ptr[a] /\ s.ptr[a] = ptr[a]
                  /\ s.del = delCount
                  /\ spDtor(spDtor(s, c), a).del[ptr[a]] = delCount[ptr[a]] + 2
    /\ \A a \in DOMAIN ptr, c \in NotLive :
          ptr[a] # Null =>
              LET s == spCtor(State, c, ptr[a])
              IN  /\ s.ptr[c] = ptr[a] /\ s.ptr[a] = ptr[a]
                  /\ spDtor(spDtor(s, c), a).del[ptr[a]] = delCount[ptr[a]] + 2

\* A resource has been destroyed twice, by the destructors of an object and of
\* its copy, and the caller never passed a handle it did not have.
C12_Witness ==
    /\ last.op = "dtor" /\ last.old # Null
    /\ delCount[last.old] = 2
    /\ ~strayed

\* The resource main() of the smartPointer program created.
Created == CHOOSE r \in Resources : hand[r] # "fresh"

\* C15: the run of main() in the smartPointer program.  The resource exists
\* before the owner is bound to it; the member access and then the
\* dereference reach the resource while it is not destroyed; the destructor
\* of the owner begins before the resource is destroyed, and when main has
\* returned the resource has been destroyed exactly once.
C15_SimpleDemoTrace ==
    /\ pc \in {"L55c", "L58", "L59", "L61", "L62", "done"} =>
          Cardinality({r \in Resources : hand[r] # "fresh"}) = 1
    /\ pc = "L55c" =>
          /\ last.op = "new" /\ last.ret = Created
          /\ hand[Created] = "caller"
          /\ DOMAIN ptr = {} /\ NoneDestroyed
    /\ pc = "L58" =>
          /\ last.op = "ctor" /\ DOMAIN ptr = {1}
          /\ ptr[1] = Created /\ NoneDestroyed
    /\ pc = "L59" =>
          /\ last.op = "arrow" /\ last.ret = Created
          /\ DOMAIN ptr = {1} /\ ptr[1] = Created /\ NoneDestroyed
    /\ pc = "L61" =>
          /\ last.op = "deref" /\ last.ret = Created
          /\ DOMAIN ptr = {1} /\ ptr[1] = Created /\ NoneDestroyed
    /\ pc = "L62" =>
          /\ last.op = "dtorBegin" /\ ip = [op |-> "dtor", this |-> 1]
          /\ DOMAIN ptr = {1} /\ ptr[1] = Created /\ NoneDestroyed
    /\ pc = "done" =>
          /\ last.op = "dtor" /\ last.old = Created /\ ip = Idle
          /\ DOMAIN ptr = {}
          /\ OnlyDestroyedOnce(Created)

\* main() of the smartPointer program has returned.
C15_Witness ==
    /\ pc = "done" /\ last.op = "dtor"
    /\ DOMAIN ptr = {} /\ delCount[Created] = 1
    /\ hand[Created] = "owner"

\* ---------------------------------------------------------------------------
\* The number of deletes of a run has not reached the bound of the model.
Room == Deletes(delCount, Resources) < MaxDeletes

\* Every object of st is whole: it holds one handle, and every count is a
\* number.
WellFormed(st) ==
    /\ DOMAIN st.ptr \subseteq Owners
    /\ \A o \in DOMAIN st.ptr : st.ptr[o] \in Handles
    /\ st.del \in [Resources -> Nat]

\* C13: while the program runs, the constructor, the move constructor, the
\* move assignment, release, reset and the destructor can be called and run
\* to their end whatever the objects involved hold, a source that is already
\* empty included, and leave every object whole; a run is cut short only by
\* a dereference or member access through an empty owner.
C13_Totality ==
    /\ last.op # "crash" =>
          /\ \A o \in NotLive, p \in Handles :
                ENABLED Construct(o, p) /\ WellFormed(ctor(State, o, p))
          /\ \A o \in NotLive, other \in DOMAIN ptr :
                /\ ENABLED TransferConstruct(o, other)
                /\ WellFormed(moveCtor(State, o, other))
          /\ \A o \in DOMAIN ptr, other \in DOMAIN ptr :
                /\ (Room \/ ptr[o] = Null) => ENABLED TransferAssign(o, other)
                /\ WellFormed(moveAssign(State, o, other))
          /\ \A o \in DOMAIN ptr :
                ENABLED Release(o) /\ WellFormed(release(State, o).st)
          /\ \A o \in DOMAIN ptr, p \in Handles :
                /\ (Room \/ ptr[o] = Null) => ENABLED Reset(o, p)
                /\ WellFormed(reset(State, o, p))
          /\ \A o \in DOMAIN ptr :
                /\ (Room \/ ptr[o] = Null) => ENABLED Destruct(o)
                /\ WellFormed(dtor(State, o))
    /\ last.op = "crash" => last.old = Null /\ last.ret = Null

\* A move assignment from an empty source to an empty receiver has run, and
\* every object is alive and empty.
C13_Witness ==
    /\ last.op = "moveAssign" /\ last.old = Null
    /\ DOMAIN ptr = Owners
    /\ \A o \in Owners : ptr[o] = Null

\* ---------------------------------------------------------------------------
\* No live owner holds a resource that has been destroyed.
NoDangling ==
    \A o \in DOMAIN ptr : ptr[o] # Null => delCount[ptr[o]] = 0

\* Every resource that is with an owner by the caller's bookkeeping has been
\* destroyed exactly once.
AdoptedDestroyedOnce ==
    \A r \in Resources : hand[r] \in {"owner", "again"} => delCount[r] = 1

\* C17 as stated: if every handle passed to a constructor or to reset was
\* fresh or had been returned by release before (and, which narrows it, was
\* held by no object at the time), then once no object is left every
\* resource ever adopted has been destroyed exactly once, those released
\* last and not adopted again excepted.
C17_NoLeakLoosely ==
    (~loose /\ DOMAIN ptr = {}) => AdoptedDestroyedOnce

\* C17, amended: the same if every handle passed was fresh or was the handle
\* release returned last for its resource, not passed on since.
C17_NoLeak ==
    (~strayed /\ DOMAIN ptr = {}) => AdoptedDestroyedOnce

\* Every object has been destroyed; one resource was released, adopted again
\* and destroyed once.
C17_Witness ==
    /\ ~strayed /\ DOMAIN ptr = {}
    /\ \E r \in Resources : hand[r] = "again" /\ delCount[r] = 1

\* C18 as stated: if every handle passed to a constructor or to reset was a
\* fresh resource or a handle returned by release that no object held at the
\* time, then no two live owners hold the same resource and no live owner
\* holds a destroyed resource.
C18_DisciplinedLoosely ==
    ~loose => (Exclusive /\ NoDangling)

\* C18, amended: the same if every handle passed was fresh or was the handle
\* release returned last for its resource, not passed on since.
C18_Disciplined ==
    ~strayed => (Exclusive /\ NoDangling)

\* A released resource has been adopted again while another resource has been
\* destroyed.
C18_Witness ==
    /\ ~strayed
    /\ \E o \in DOMAIN ptr :
          /\ ptr[o] # Null /\ hand[ptr[o]] = "again"
          /\ \E r \in Resources \ {ptr[o]} : delCount[r] = 1

\* ---------------------------------------------------------------------------
\* C14: operator* and operator-> of an owner that holds a resource, of either
\* class, yield exactly that resource, change no handle and destroy nothing.
C14_ObserversPure ==
    /\ \A o \in DOMAIN ptr :
          ptr[o] # Null =>
              /\ arrow(State, o) = [st |-> State, ret |-> ptr[o]]
              /\ deref(State, o) = [st |-> State, ret |-> ptr[o]]
              /\ spArrow(State, o) = [st |-> State, ret |-> ptr[o]]
              /\ spDeref(State, o) = [st |-> State, ret |-> ptr[o]]
    /\ (last.op \in {"arrow", "deref"} /\ last.old # Null) =>
          /\ last.ret = last.old
          /\ \E o \in DOMAIN ptr : ptr[o] = last.old

\* A dereference of an owner that holds a live resource has returned it.
C14_Witness ==
    /\ last.op = "deref" /\ last.ret # Null
    /\ \E o \in DOMAIN ptr : ptr[o] = last.ret
    /\ delCount[last.ret] = 0

\* C20: reset(R) on an owner that holds R destroys R and leaves the owner
\* holding R, so that the destructor or another reset of that owner destroys
\* R a second time; reset(o.release()) destroys nothing and leaves the owner
\* holding R.
C20_ResetSelf ==
    \A o \in DOMAIN ptr :
        ptr[o] # Null =>
            LET R == ptr[o]
                s == reset(State, o, R)
                r == release(State, o)
            IN  /\ s.ptr = ptr
                /\ s.del = OnceMore(delCount, R)
                /\ dtor(s, o).del = OnceMore(s.del, R)
                /\ \A p \in Handles : reset(s, o, p).del = OnceMore(s.del, R)
                /\ reset(r.st, o, r.ret) = State

\* reset was called with the handle the owner held: the owner, and no other,
\* holds the resource, which has been destroyed once.
C20_Witness ==
    /\ last.op = "reset" /\ last.old # Null /\ ~aliased
    /\ Cardinality(HeldBy(State, last.old)) = 1
    /\ delCount[last.old] = 1

\* ---------------------------------------------------------------------------
\* A transfer of a resource is in progress.
InTransfer == ip.op \in {"moveCtor", "moveAssign"} /\ ip.res # Null

\* Those of p's source and receiver that hold p in st.
Holders(st, this, other, p) ==
    {x \in {this, other} \cap Live(st) : st.ptr[x] = p}

AfterDelete ==
    \/ ip.op = "moveAssign" /\ ip.at = 37
    \/ ip.op = "reset" /\ ip.at = 68

C22_TransferAssignAllCases ==
    \A o \in DOMAIN ptr : \A other \in DOMAIN ptr \ {o} :
        LET s == moveAssign(State, o, other)
        IN  /\ Deletes(s.del, Resources) - Deletes(delCount, Resources)
                  = IF ptr[o] # Null THEN 1 ELSE 0
            /\ s.del = Delete(delCount, ptr[o])
            /\ s.ptr[o] = ptr[other]
            /\ s.ptr[other] = Null
            /\ DOMAIN s.ptr = DOMAIN ptr

\* An owning receiver has been move-assigned from an empty source: both are
\* empty and the receiver's old resource has been destroyed once.
C22_Witness ==
    /\ last.op = "moveAssign" /\ last.old # Null /\ ~misuse
    /\ Cardinality(DOMAIN ptr) >= 2
    /\ \A o \in DOMAIN ptr : ptr[o] = Null
    /\ delCount[last.old] = 1

\* C23: release on an object that holds nothing returns nullptr, leaves the
\* object empty and destroys nothing; so the second of two releases in a row
\* returns nullptr and changes nothing.
C23_ReleaseEmpty ==
    \A o \in DOMAIN ptr :
        LET r1 == release(State, o)
            r2 == release(r1.st, o)
        IN  /\ ptr[o] = Null => r1 = [st |-> State, ret |-> Null]
            /\ r1.st.ptr[o] = Null
            /\ r2 = [st |-> r1.st, ret |-> Null]

\* release has been called on an object that held nothing.
C23_Witness ==
    /\ last.op = "release" /\ last.old = Null /\ last.ret = Null
    /\ \E o \in DOMAIN ptr : ptr[o] = Null

\* ---------------------------------------------------------------------------
\* Every object of the present state that is not in S is an object of st and
\* holds in st what it holds now.
Untouched(st, S) ==
    \A x \in DOMAIN ptr \ S : x \in DOMAIN st.ptr /\ st.ptr[x] = ptr[x]

\* No resource but that of handle p is destroyed from the present state to st.
DestroysAtMost(st, p) ==
    \A r \in Resources \ {p} : st.del[r] = delCount[r]

\* C24: each operation changes only the handles of the objects it is applied
\* to.  The constructor changes no existing object and destroys nothing;
\* release, reset and the destructor leave every other object's handle as it
\* was; the move constructor and the move assignment leave every object
\* other than source and receiver as it was; and an operation destroys no
\* resource but the one its target held before.
C24_Frame ==
    /\ \A o \in Party \ DOMAIN ptr, p \in Handles :
          LET s == ctor(State, o, p)
          IN  /\ Untouched(s, {}) /\ s.del = delCount
              /\ DOMAIN s.ptr = DOMAIN ptr \cup {o}
    /\ \A o \in DOMAIN ptr :
          /\ LET s == release(State, o).st
             IN  /\ Untouched(s, {o}) /\ s.del = delCount
                 /\ DOMAIN s.ptr = DOMAIN ptr
          /\ LET s == dtor(State, o)
             IN  /\ Untouched(s, {o}) /\ DestroysAtMost(s, ptr[o])
                 /\ DOMAIN s.ptr = DOMAIN ptr \ {o}
          /\ \A p \in Handles :
                LET s == reset(State, o, p)
                IN  /\ Untouched(s, {o}) /\ DestroysAtMost(s, ptr[o])
                    /\ DOMAIN s.ptr = DOMAIN ptr
    /\ \A o \in Party \ DOMAIN ptr, other \in DOMAIN ptr :
          LET s == moveCtor(State, o, other)
          IN  /\ Untouched(s, {o, other}) /\ s.del = delCount
              /\ DOMAIN s.ptr = DOMAIN ptr \cup {o}
    /\ \A o \in DOMAIN ptr, other \in DOMAIN ptr :
          LET s == moveAssign(State, o, other)
          IN  /\ Untouched(s, {o, other}) /\ DestroysAtMost(s, ptr[o])
              /\ DOMAIN s.ptr = DOMAIN ptr

\* A move assignment has run beside a bystander: of three live objects the
\* source is empty, and the receiver and the bystander hold two different
\* resources, none of them destroyed.
C24_Witness ==
    /\ last.op = "moveAssign"
    /\ Cardinality(DOMAIN ptr) = 3
    /\ Cardinality({o \in DOMAIN ptr : ptr[o] = Null}) = 1
    /\ \E a \in DOMAIN ptr : \E b \in DOMAIN ptr \ {a} :
          /\ ptr[a] # Null /\ ptr[b] # Null /\ ptr[a] # ptr[b]
          /\ delCount[ptr[a]] = 0 /\ delCount[ptr[b]] = 0

====
